---- MODULE Spec2Model ----
(***************************************************************************)
(* Reservation booking for the apple-juice sale: presences, their          *)
(* 15-minute slots and the reservations on them (src/src/db.js), and the   *)
(* request handlers that drive them (src/src/app.js).                      *)
(*                                                                         *)
(* Conventions of the model                                                *)
(*   - an instant is a number of minutes since day 0, 00:00 UTC; a date is *)
(*     a day index and a time of day a number of minutes (09:00 = 540);    *)
(*   - a text the code inspects character by character (location,          *)
(*     quantity) is a tuple of one-character strings; other texts are      *)
(*     strings, "" being the empty (falsy) one;                            *)
(*   - sql.begin is a transaction and the interpolated ts/te are           *)
(*     timestamptz literals, as db.js writes them;                         *)
(*   - a handler is one action: the requests are served one at a time;     *)
(*     the presence edit is also given await by await (EditBegin, the      *)
(*     statements of its transaction, TxCommit), other requests between.   *)
(***************************************************************************)
EXTENDS Integers, Sequences, FiniteSets, TLC

VARIABLES
    presences,          \* rows of table presences
    slots,              \* rows of table slots
    reservations,       \* rows of table reservations
    nextPresenceId,     \* presences.id SERIAL
    nextSlotId,         \* slots.id SERIAL
    nextReservationId,  \* reservations.id SERIAL
    now,                \* the clock: NOW() and new Date()
    issued,             \* tokens handed back by successful bookings so far
    last,               \* the last request served and its response
    edit,               \* the presence edit in progress, between two of its awaits
    closed              \* the reservations an edit or cancel was refused for with 403

vars == <<presences, slots, reservations, nextPresenceId, nextSlotId,
          nextReservationId, now, issued, last, edit, closed>>

store == <<presences, slots, reservations, nextPresenceId, nextSlotId,
           nextReservationId>>

----------------------------------------------------------------------------
(* Bounds of the model *)

\* the serial ids the three tables may draw in all: each insert draws one
MaxSerial == 6

(* Program constants *)

Interval == 15
ListLimit == 100

\* expiresIn: "7d", in minutes
SessionMinutes == 7 * 24 * 60

\* process.env.ADMIN_PASSWORD || "admin" and process.env.SESSION_SECRET || "dev_secret"
ADMIN_PASSWORD == "admin"
SESSION_SECRET == "dev_secret"

(* Values of the model *)

\* no admin_token cookie in the request, none set by the response
NoCookie == [secret |-> "", exp |-> 0]

Absent == 0 - 1
NaN == [nan |-> TRUE, val |-> 0]
NULL == [null |-> TRUE]
SqlNull == "NULL"

(* Input domains *)

Tokens == {1, 2}
Locations == {<<"G", "a">>, <<"b">>}
LocationFilters == {<<>>, <<"g">>, <<"_", "a">>}
Dates == {0, 1}
\* the date filters of the listings: none, or the first day
DateFilters == {Absent, 0}

\* a booking form filled in correctly, and another one
ValidBody ==
    [first_name |-> "Al", last_name |-> "Bo", phone |-> "04", quantity |-> <<"1">>,
     comment |-> "", email |-> ""]
OtherValidBody ==
    [first_name |-> "Al", last_name |-> "Bo", phone |-> "04", quantity |-> <<"2">>,
     comment |-> "c", email |-> ""]

ReservationBodies ==
    {ValidBody, OtherValidBody,
     [ValidBody EXCEPT !.first_name = ""],
     [ValidBody EXCEPT !.last_name = ""],
     [ValidBody EXCEPT !.phone = ""]}
    \cup {[ValidBody EXCEPT !.quantity = q] :
            q \in {<<>>, <<"0">>, <<"-", "1">>, <<"x">>, <<"1", "x">>}}

\* the forms of the self-service edit: a valid one and one without a phone number
EditBodies == {OtherValidBody, [ValidBody EXCEPT !.phone = ""]}

\* the presence forms of the mutation window: 09:00-09:30 and 09:15-09:30 of day 0
ClosingBodies ==
    {[location |-> <<"b">>, date |-> 0, start_time |-> t, end_time |-> 570,
      confirm_impact |-> TRUE] : t \in {540, 555}}

\* the passwords typed into the login form
Passwords == {"", "admin", "Admin"}

\* the presence forms of the administrator: a window of one slot, and no location
AdminBodies ==
    {[location |-> l, date |-> 0, start_time |-> 540, end_time |-> 555,
      confirm_impact |-> TRUE] : l \in {<<"b">>, <<>>}}

\* booking forms with and without an address for the confirmation mail
MailBodies ==
    {ValidBody, [ValidBody EXCEPT !.email = "a@b"],
     [ValidBody EXCEPT !.email = "a@b", !.quantity = <<"0">>]}

\* presence forms with a field left empty
IncompletePresenceBodies ==
    {[location |-> f[1], date |-> f[2], start_time |-> f[3], end_time |-> f[4],
      confirm_impact |-> TRUE] :
        f \in {<<<<>>, 0, 540, 555>>, <<<<"b">>, Absent, 540, 555>>,
               <<<<"b">>, 0, Absent, 555>>, <<<<"b">>, 0, 540, Absent>>}}

\* the presence forms of the workflows: one place, one day, the windows
\* 09:00-09:15 and 09:00-09:30 and two that end before they start
PresenceBodies ==
    [location : {<<"b">>}, date : {0}, start_time : {540, 570},
     end_time : {555, 570}, confirm_impact : BOOLEAN]
    \cup IncompletePresenceBodies

\* the presence forms of the edits in progress: one place, a later day, windows on
\* and off the quarter hours, and one that ends before it starts
RegenerationBodies ==
    {[location |-> <<"b">>, date |-> 1, start_time |-> w[1], end_time |-> w[2],
      confirm_impact |-> c] :
        w \in {<<540, 555>>, <<555, 580>>, <<555, 540>>}, c \in BOOLEAN}

\* the presence forms of the slot generation: every window, on and off the quarter hours
WindowBodies ==
    [location : {<<"b">>}, date : {1}, start_time : {540, 555, 565, 600},
     end_time : {540, 555, 565, 600}, confirm_impact : {FALSE}]

\* the presence forms of the listings: two places, two days, windows of one slot
ListedBodies ==
    {[location |-> l, date |-> d, start_time |-> w[1], end_time |-> w[2],
      confirm_impact |-> FALSE] :
        l \in Locations, d \in Dates, w \in {<<540, 555>>, <<555, 570>>}}

----------------------------------------------------------------------------
(* Time *)

Instant(date, time) == date * (24 * 60) + time

DateOf(instant) == instant \div (24 * 60)

\* the instants the clock of the workflows shows: before every slot, and at the second quarter
ClockPoints == {Instant(0, 530), Instant(0, 555)}

\* the instants the clock of the mutation window shows: between the two slots, and
\* at the second one
ClosingClockPoints == {Instant(0, 545), Instant(0, 555)}

\* the instants the clock shows to the administrator: a login, and a week later
AdminClockPoints == {Instant(0, 535), Instant(7, 530)}

\* the admin_token cookies of the requests: none, the one a login at the first
\* instant sets, one signed with another secret
Cookies ==
    {NoCookie,
     [secret |-> SESSION_SECRET, exp |-> Instant(0, 530) + SessionMinutes],
     [secret |-> "other", exp |-> Instant(0, 530) + SessionMinutes]}

\* the instants the clock of the listings shows
ListClockPoints == {Instant(0, 530), Instant(0, 555)}

\* the series that stops before its stop value instead of at it
GenerateSeriesBelowStop(start, stop, step) ==
    IF stop <= start THEN {}
    ELSE {start + k * step : k \in 0..((stop - 1 - start) \div step)}

\* generate_series(start, stop, step): start, start+step, ... while <= stop
GenerateSeries(start, stop, step) ==
    IF stop < start THEN {}
    ELSE {start + k * step : k \in 0..((stop - start) \div step)}

\* the series run up to the end of the window itself
SlotInstantsThroughEnd(date, start_time, end_time) ==
    GenerateSeries(Instant(date, start_time), Instant(date, end_time), Interval)

\* the instants createPresence and updatePresenceWithRegeneration insert
SlotInstants(date, start_time, end_time) ==
    LET ts == Instant(date, start_time)
        te == Instant(date, end_time)
    IN  GenerateSeries(ts, te - Interval, Interval)

----------------------------------------------------------------------------
(* Texts *)

Digits == {"0", "1", "2", "3", "4", "5", "6", "7", "8", "9"}

DigitVal(c) ==
    CASE c = "0" -> 0 [] c = "1" -> 1 [] c = "2" -> 2 [] c = "3" -> 3
      [] c = "4" -> 4 [] c = "5" -> 5 [] c = "6" -> 6 [] c = "7" -> 7
      [] c = "8" -> 8 [] c = "9" -> 9

RECURSIVE ParseDigits(_, _, _)
\* the value of the longest run of digits of s from position i on
ParseDigits(s, i, acc) ==
    IF i > Len(s) \/ s[i] \notin Digits THEN acc
    ELSE ParseDigits(s, i + 1, acc * 10 + DigitVal(s[i]))

RECURSIVE SkipSpaces(_, _)
SkipSpaces(s, i) ==
    IF i <= Len(s) /\ s[i] = " " THEN SkipSpaces(s, i + 1) ELSE i

\* parseInt(s, 10): leading blanks, an optional sign, then digits; NaN without a digit
ParseInt(s) ==
    LET i == SkipSpaces(s, 1)
        signed == i <= Len(s) /\ s[i] \in {"-", "+"}
        j == IF signed THEN i + 1 ELSE i
    IN  IF j > Len(s) \/ s[j] \notin Digits THEN NaN
        ELSE IF signed /\ s[i] = "-"
             THEN [nan |-> FALSE, val |-> 0 - ParseDigits(s, j, 0)]
        ELSE [nan |-> FALSE, val |-> ParseDigits(s, j, 0)]

isNaN(x) == x.nan

\* the comparison one off: x < n - 1
NumLessByOne(x, n) == ~ x.nan /\ x.val < n - 1

\* x < n of a JavaScript number x: false when x is NaN
NumLess(x, n) == ~ x.nan /\ x.val < n

\* !x of a JavaScript number: NaN and 0 are falsy
NumFalsy(x) == x.nan \/ x.val = 0

Lower(c) ==
    CASE c = "A" -> "a" [] c = "B" -> "b" [] c = "G" -> "g" [] OTHER -> c

RECURSIVE LikeFrom(_, _, _, _)
\* LIKE on lowered texts: pattern pat from position i against text s from position j
LikeFrom(pat, i, s, j) ==
    IF i > Len(pat) THEN j > Len(s)
    ELSE IF pat[i] = "%"
         THEN \E k \in j..(Len(s) + 1) : LikeFrom(pat, i + 1, s, k)
    ELSE IF j > Len(s) THEN FALSE
    ELSE IF pat[i] = "_" \/ Lower(pat[i]) = Lower(s[j])
         THEN LikeFrom(pat, i + 1, s, j + 1)
    ELSE FALSE

\* text ILIKE pattern
ILike(text, pattern) == LikeFrom(pattern, 1, text, 1)

\* byte order of the characters the model uses
CharRank(c) ==
    CASE c = "B" -> 66 [] c = "G" -> 71 [] c = "_" -> 95
      [] c = "a" -> 97 [] c = "b" -> 98 [] c = "g" -> 103 [] OTHER -> 0

RECURSIVE TextLessFrom(_, _, _)
TextLessFrom(a, b, i) ==
    IF i > Len(b) THEN FALSE
    ELSE IF i > Len(a) THEN TRUE
    ELSE IF CharRank(a[i]) # CharRank(b[i]) THEN CharRank(a[i]) < CharRank(b[i])
    ELSE TextLessFrom(a, b, i + 1)

\* a < b in the order ORDER BY gives texts
TextLess(a, b) == TextLessFrom(a, b, 1)

----------------------------------------------------------------------------
(* The store: lookups *)

PresenceRow(id) == CHOOSE p \in presences : p.id = id

SlotRow(id) == CHOOSE s \in slots : s.id = id

\* SELECT * FROM presences WHERE id = ... LIMIT 1
getPresenceById(id) ==
    IF \E p \in presences : p.id = id THEN PresenceRow(id) ELSE NULL

\* slots JOIN presences WHERE s.id = ... LIMIT 1
getSlotById(slotId) ==
    IF \E s \in slots : s.id = slotId
    THEN LET s == SlotRow(slotId)
             p == PresenceRow(s.presence_id)
         IN  [id |-> s.id, presence_id |-> s.presence_id, start_at |-> s.start_at,
              location |-> p.location, date |-> p.date]
    ELSE NULL

\* reservations JOIN slots JOIN presences WHERE r.token = ... LIMIT 1
getReservationByToken(token) ==
    IF \E r \in reservations : r.token = token
    THEN LET r == CHOOSE x \in reservations : x.token = token
             s == SlotRow(r.slot_id)
             p == PresenceRow(s.presence_id)
         IN  [row |-> r, start_at |-> s.start_at, location |-> p.location,
              date |-> p.date]
    ELSE NULL

SlotsOf(presenceId) == {s \in slots : s.presence_id = presenceId}

\* the reservations that ON DELETE CASCADE removes with the slots S
ReservationsOn(S) == {r \in reservations : \E s \in S : s.id = r.slot_id}

\* the count over every presence: the WHERE clause left out
countReservationsOfAll(presenceId) == Cardinality(reservations)

\* SELECT COUNT(*) FROM reservations JOIN slots WHERE s.presence_id = ...
countReservationsForPresence(presenceId) ==
    Cardinality(ReservationsOn(SlotsOf(presenceId)))

RECURSIVE NumberFrom(_, _)
\* the rows INSERT ... SELECT gives the instants S, in ascending order, ids from n on
NumberFrom(S, n) ==
    IF S = {} THEN {}
    ELSE LET m == CHOOSE x \in S : \A y \in S : x <= y
         IN  {[id |-> n, start_at |-> m]} \cup NumberFrom(S \ {m}, n + 1)

\* INSERT INTO slots ... SELECT presenceId, gs ... ON CONFLICT DO NOTHING
InsertSlots(kept, presenceId, instants) ==
    kept \cup
    {[id |-> x.id, presence_id |-> presenceId, start_at |-> x.start_at] :
        x \in {y \in NumberFrom(instants, nextSlotId) :
                 ~ \E s \in kept : s.presence_id = presenceId /\ s.start_at = y.start_at}}

\* the guard with the boundary on the wrong side: a slot starting now still counts as ahead
isBeforeSlotStartInclusive(slotStart) == now <= slotStart

\* now < start
isBeforeSlotStart(slotStart) == now < slotStart

----------------------------------------------------------------------------
(* The store: writes *)

\* table reservations without UNIQUE (token)
ReservationAcceptedAnyToken(row) ==
    /\ row.quantity >= 1
    /\ \E s \in slots : s.id = row.slot_id

\* UNIQUE (token), CHECK (quantity >= 1) and REFERENCES slots(id) of table reservations
ReservationAccepted(row) ==
    /\ \A r \in reservations : r.token # row.token
    /\ row.quantity >= 1
    /\ \E s \in slots : s.id = row.slot_id

\* INSERT INTO reservations ... RETURNING id; a refused row raises and inserts nothing
createReservation(row) ==
    IF ReservationAccepted(row)
    THEN reservations \cup
         {[id |-> nextReservationId, slot_id |-> row.slot_id,
           first_name |-> row.first_name, last_name |-> row.last_name,
           phone |-> row.phone, quantity |-> row.quantity,
           comment |-> row.comment, token |-> row.token]}
    ELSE reservations

\* UPDATE reservations SET ... WHERE token = ...
updateReservation(token, f) ==
    {IF r.token = token
     THEN [r EXCEPT !.first_name = f.first_name, !.last_name = f.last_name,
                    !.phone = f.phone, !.quantity = f.quantity, !.comment = f.comment]
     ELSE r : r \in reservations}

\* DELETE FROM reservations WHERE token = ...
deleteReservationByToken(token) == {r \in reservations : r.token # token}

\* comment || null
CommentOrNull(comment) == IF comment = "" THEN SqlNull ELSE comment

----------------------------------------------------------------------------
(* Responses *)

\* what a handler answered: the status, the page or message sent, the reservation count
\* the handler read (reservationsCount), the reservation rows its statements removed,
\* the rows a listing returned, the token on the confirmation page, what became of the
\* confirmation mail, and the admin_token cookie the response sets
Response(op, status, view) ==
    [op |-> op, status |-> status, view |-> view, cnt |-> 0, erased |-> 0,
     rows |-> <<>>, token |-> 0, mail |-> "none", cookie |-> NoCookie]

\* sendConfirmationEmail is not called
NoMail == "none"

\* the confirmation mail is attempted whatever the form holds
sendConfirmationEmailAlways(email) == {"sent", "failed"}

\* if (email) { try { await sendConfirmationEmail(...) } catch (e) { console.error } }:
\* sendMail resolves or rejects
sendConfirmationEmail(email) ==
    IF email = "" THEN {NoMail} ELSE {"sent", "failed"}

\* the serial ids drawn so far
SerialsDrawn == (nextPresenceId - 1) + (nextSlotId - 1) + (nextReservationId - 1)

\* n more serial ids are within the model's bound
SerialsLeft(n) == SerialsDrawn + n <= MaxSerial

\* the number of slots of the window of a form
WindowSize(body) ==
    Cardinality(SlotInstants(body.date, body.start_time, body.end_time))

\* no presence edit in progress
Idle ==
    [pc |-> "idle", id |-> 0, location |-> <<>>, date |-> Absent, start_time |-> Absent,
     end_time |-> Absent, confirm_impact |-> FALSE, cnt |-> 0, deleted |-> {},
     inserted |-> {}]

----------------------------------------------------------------------------
(* Handlers *)

Init ==
    /\ presences = {}
    /\ slots = {}
    /\ reservations = {}
    /\ nextPresenceId = 1
    /\ nextSlotId = 1
    /\ nextReservationId = 1
    /\ now = Instant(0, 530)
    /\ issued = {}
    /\ last = Response("start", 200, "")
    /\ edit = Idle
    /\ closed = {}

\* a clock that is set back as well as forward
TickEitherWay(points) ==
    /\ UNCHANGED <<edit, closed>>
    /\ \E t \in points : t # now /\ now' = t
    /\ UNCHANGED <<store, issued, last>>

\* time passes between two requests
Tick(points) ==
    /\ UNCHANGED <<edit, closed>>
    /\ \E t \in points : t > now /\ now' = t
    /\ UNCHANGED <<store, issued, last>>

\* app.post("/reserve/:slotId")
PostReserve(slotId, body) ==
    /\ UNCHANGED <<edit, closed>>
    /\ now' = now
    /\ UNCHANGED <<presences, slots, nextPresenceId, nextSlotId>>
    /\ IF getSlotById(slotId) = NULL
       THEN /\ last' = Response("reserve", 404, "Creneau introuvable")
            /\ UNCHANGED <<reservations, nextReservationId, issued>>
       ELSE IF body.first_name = "" \/ body.last_name = "" \/ body.phone = ""
               \/ body.quantity = <<>>
       THEN /\ last' = Response("reserve", 400, "Champs requis manquants")
            /\ UNCHANGED <<reservations, nextReservationId, issued>>
       ELSE IF isNaN(ParseInt(body.quantity)) \/ NumLess(ParseInt(body.quantity), 1)
       THEN /\ last' = Response("reserve", 400, "Quantite invalide")
            /\ UNCHANGED <<reservations, nextReservationId, issued>>
       ELSE /\ SerialsLeft(1)
            /\ \E token \in Tokens :
                 LET row == [slot_id |-> slotId, first_name |-> body.first_name,
                             last_name |-> body.last_name, phone |-> body.phone,
                             quantity |-> ParseInt(body.quantity).val,
                             comment |-> CommentOrNull(body.comment), token |-> token]
                 IN  /\ reservations' = createReservation(row)
                     /\ nextReservationId' = nextReservationId + 1
                     /\ IF ReservationAccepted(row)
                        THEN /\ issued' = issued \cup {token}
                             /\ \E mail \in sendConfirmationEmail(body.email) :
                                  last' = [Response("reserve", 200, "confirm")
                                              EXCEPT !.token = token, !.mail = mail]
                        ELSE /\ issued' = issued
                             /\ last' = Response("reserve", 500, "error")

\* the reservation the token designates, if a self-service request for it is
\* answered 403 now
Refused(token) ==
    IF getReservationByToken(token) # NULL
       /\ ~ isBeforeSlotStart(getReservationByToken(token).start_at)
    THEN {[token |-> token, id |-> getReservationByToken(token).row.id]}
    ELSE {}

\* the refusals with 403 are kept, or are not looked at
Noted(token) == closed' = closed \cup Refused(token)
NotNoted == closed' = closed

\* app.post("/r/:token/edit")
PostEdit(token, body) ==
    /\ edit' = edit
    /\ now' = now
    /\ UNCHANGED <<presences, slots, nextPresenceId, nextSlotId, nextReservationId, issued>>
    /\ IF getReservationByToken(token) = NULL
       THEN /\ last' = Response("edit", 404, "Reservation introuvable")
            /\ reservations' = reservations
       ELSE IF ~ isBeforeSlotStart(getReservationByToken(token).start_at)
       THEN /\ last' = Response("edit", 403, "Modification non autorisee")
            /\ reservations' = reservations
       ELSE IF body.first_name = "" \/ body.last_name = "" \/ body.phone = ""
               \/ NumFalsy(ParseInt(body.quantity))
               \/ NumLess(ParseInt(body.quantity), 1)
       THEN /\ last' = Response("edit", 400, "Champs requis invalides")
            /\ reservations' = reservations
       ELSE /\ reservations' =
                 updateReservation(token,
                     [first_name |-> body.first_name, last_name |-> body.last_name,
                      phone |-> body.phone, quantity |-> ParseInt(body.quantity).val,
                      comment |-> CommentOrNull(body.comment)])
            /\ last' = Response("edit", 200, "modified")

\* app.post("/r/:token/cancel")
PostCancel(token) ==
    /\ edit' = edit
    /\ now' = now
    /\ UNCHANGED <<presences, slots, nextPresenceId, nextSlotId, nextReservationId, issued>>
    /\ IF getReservationByToken(token) = NULL
       THEN /\ last' = Response("cancel", 404, "Reservation introuvable")
            /\ reservations' = reservations
       ELSE IF ~ isBeforeSlotStart(getReservationByToken(token).start_at)
       THEN /\ last' = Response("cancel", 403, "Annulation non autorisee")
            /\ reservations' = reservations
       ELSE /\ reservations' = deleteReservationByToken(token)
            /\ last' = [Response("cancel", 200, "canceled") EXCEPT !.erased = 1]

\* app.post("/admin/reservations/delete")
AdminDeleteReservation(token) ==
    /\ UNCHANGED <<edit, closed>>
    /\ now' = now
    /\ UNCHANGED <<presences, slots, nextPresenceId, nextSlotId, nextReservationId, issued>>
    /\ reservations' = deleteReservationByToken(token)
    /\ last' = [Response("adminDeleteReservation", 302, "/admin/reservations")
                   EXCEPT !.erased = Cardinality(reservations \ deleteReservationByToken(token))]

----------------------------------------------------------------------------
(* Presences *)

\* INSERT INTO presences ... RETURNING id, then the slots of the window, in one transaction
createPresence(f) ==
    LET instants == SlotInstants(f.date, f.start_time, f.end_time)
    IN  /\ presences' = presences \cup
                {[id |-> nextPresenceId, location |-> f.location, date |-> f.date,
                  start_time |-> f.start_time, end_time |-> f.end_time]}
        /\ nextPresenceId' = nextPresenceId + 1
        /\ slots' = InsertSlots(slots, nextPresenceId, instants)
        /\ nextSlotId' = nextSlotId + Cardinality(instants)
        /\ UNCHANGED <<reservations, nextReservationId>>

\* the update without its DELETE FROM slots: the old slots stay, ON CONFLICT DO NOTHING
\* skips the instants they hold
updatePresenceKeepingSlots(presenceId, f) ==
    LET instants == SlotInstants(f.date, f.start_time, f.end_time)
    IN  /\ presences' =
                {IF p.id = presenceId
                 THEN [p EXCEPT !.location = f.location, !.date = f.date,
                                !.start_time = f.start_time, !.end_time = f.end_time]
                 ELSE p : p \in presences}
        /\ slots' = InsertSlots(slots, presenceId, instants)
        /\ nextSlotId' = nextSlotId + Cardinality(instants)
        /\ UNCHANGED <<reservations, nextPresenceId, nextReservationId>>

\* UPDATE presences, DELETE FROM slots (cascading to reservations), INSERT the slots of
\* the new window, in one transaction
updatePresenceWithRegeneration(presenceId, f) ==
    LET instants == SlotInstants(f.date, f.start_time, f.end_time)
        old == SlotsOf(presenceId)
    IN  /\ presences' =
                {IF p.id = presenceId
                 THEN [p EXCEPT !.location = f.location, !.date = f.date,
                                !.start_time = f.start_time, !.end_time = f.end_time]
                 ELSE p : p \in presences}
        /\ reservations' = reservations \ ReservationsOn(old)
        /\ slots' = InsertSlots(slots \ old, presenceId, instants)
        /\ nextSlotId' = nextSlotId + Cardinality(instants)
        /\ UNCHANGED <<nextPresenceId, nextReservationId>>

\* the delete with a cascade that forgets whose slots it removes
deletePresenceAndAllSlots(presenceId) ==
    /\ presences' = {p \in presences : p.id # presenceId}
    /\ slots' = {}
    /\ reservations' = {}
    /\ UNCHANGED <<nextPresenceId, nextSlotId, nextReservationId>>

\* the delete without ON DELETE CASCADE: the slots of the presence stay
deletePresenceLeavingSlots(presenceId) ==
    /\ presences' = {p \in presences : p.id # presenceId}
    /\ UNCHANGED <<slots, reservations, nextPresenceId, nextSlotId, nextReservationId>>

\* DELETE FROM presences WHERE id = ..., cascading to slots and reservations
deletePresence(presenceId) ==
    /\ presences' = {p \in presences : p.id # presenceId}
    /\ slots' = slots \ SlotsOf(presenceId)
    /\ reservations' = reservations \ ReservationsOn(SlotsOf(presenceId))
    /\ UNCHANGED <<nextPresenceId, nextSlotId, nextReservationId>>

\* !location || !date || !start_time || !end_time
PresenceFieldMissing(body) ==
    body.location = <<>> \/ body.date = Absent \/ body.start_time = Absent
        \/ body.end_time = Absent

\* start < end of the two Date objects built from the form
StartBeforeEnd(body) ==
    Instant(body.date, body.start_time) < Instant(body.date, body.end_time)

\* app.post("/admin/presences/new")
AdminCreatePresence(body) ==
    /\ UNCHANGED <<edit, closed>>
    /\ now' = now
    /\ issued' = issued
    /\ IF PresenceFieldMissing(body)
       THEN /\ last' = Response("createPresence", 200, "Tous les champs sont requis")
            /\ UNCHANGED store
       ELSE IF ~ StartBeforeEnd(body)
       THEN /\ last' = Response("createPresence", 200, "L'heure de fin doit etre apres")
            /\ UNCHANGED store
       ELSE /\ SerialsLeft(1 + WindowSize(body))
            /\ createPresence(body)
            /\ last' = Response("createPresence", 302, "/admin/presences")

\* app.post("/admin/presences/:id/edit")
AdminEditPresence(id, body) ==
    /\ UNCHANGED <<edit, closed>>
    /\ now' = now
    /\ issued' = issued
    /\ IF getPresenceById(id) = NULL
       THEN /\ last' = Response("editPresence", 404, "Presence introuvable")
            /\ UNCHANGED store
       ELSE IF PresenceFieldMissing(body)
       THEN /\ last' = [Response("editPresence", 200, "Tous les champs sont requis")
                           EXCEPT !.cnt = countReservationsForPresence(id)]
            /\ UNCHANGED store
       ELSE IF ~ StartBeforeEnd(body)
       THEN /\ last' = [Response("editPresence", 200, "L'heure de fin doit etre apres")
                           EXCEPT !.cnt = countReservationsForPresence(id)]
            /\ UNCHANGED store
       ELSE IF countReservationsForPresence(id) > 0 /\ ~ body.confirm_impact
       THEN /\ last' = [Response("editPresence", 200, "Coche la case pour confirmer")
                           EXCEPT !.cnt = countReservationsForPresence(id)]
            /\ UNCHANGED store
       ELSE /\ SerialsLeft(WindowSize(body))
            /\ updatePresenceWithRegeneration(id, body)
            /\ last' = [Response("editPresence", 302, "/admin/presences")
                           EXCEPT !.cnt = countReservationsForPresence(id),
                                  !.erased = countReservationsForPresence(id)]

\* app.post("/admin/presences/:id/delete")
AdminDeletePresence(id) ==
    /\ UNCHANGED <<edit, closed>>
    /\ now' = now
    /\ issued' = issued
    /\ IF getPresenceById(id) = NULL
       THEN /\ last' = Response("deletePresence", 404, "Presence introuvable")
            /\ UNCHANGED store
       ELSE /\ deletePresence(id)
            /\ last' = [Response("deletePresence", 302, "/admin/presences")
                           EXCEPT !.erased = countReservationsForPresence(id)]

----------------------------------------------------------------------------
(* The administrator *)

\* jwt.sign({ admin: true }, SESSION_SECRET, { expiresIn: "7d" })
setAdminCookie == [secret |-> SESSION_SECRET, exp |-> now + SessionMinutes]

\* app.post("/admin/login")
PostLogin(password) ==
    /\ UNCHANGED <<store, now, issued, edit, closed>>
    /\ IF password # "" /\ password = ADMIN_PASSWORD
       THEN last' = [Response("login", 302, "/admin") EXCEPT !.cookie = setAdminCookie]
       ELSE last' = Response("login", 200, "Mot de passe incorrect")

\* the check that lets every request with a cookie through
requireAdminAnyCookie(cookie) == cookie # NoCookie

\* requireAdmin: the cookie is there and jwt.verify accepts it, signature and expiry
requireAdmin(cookie) ==
    /\ cookie # NoCookie
    /\ cookie.secret = SESSION_SECRET
    /\ now < cookie.exp

\* a route behind requireAdmin: next(), or res.redirect("/admin/login")
AdminRoute(cookie, handler) ==
    IF requireAdmin(cookie)
    THEN handler
    ELSE /\ last' = Response("requireAdmin", 302, "/admin/login")
         /\ UNCHANGED <<store, now, issued, edit, closed>>

----------------------------------------------------------------------------
(* The presence edit, await by await *)

\* the tables as the other requests read them: the committed rows
tables == <<presences, slots, reservations>>

\* app.post("/admin/presences/:id/edit") up to the call of
\* updatePresenceWithRegeneration: the checks and the count are made, the
\* transaction is not begun
EditBegin(id, body) ==
    /\ edit = Idle
    /\ closed' = closed
    /\ UNCHANGED <<store, now, issued>>
    /\ IF getPresenceById(id) = NULL
       THEN /\ last' = Response("editPresence", 404, "Presence introuvable")
            /\ edit' = edit
       ELSE IF PresenceFieldMissing(body)
       THEN /\ last' = [Response("editPresence", 200, "Tous les champs sont requis")
                           EXCEPT !.cnt = countReservationsForPresence(id)]
            /\ edit' = edit
       ELSE IF ~ StartBeforeEnd(body)
       THEN /\ last' = [Response("editPresence", 200, "L'heure de fin doit etre apres")
                           EXCEPT !.cnt = countReservationsForPresence(id)]
            /\ edit' = edit
       ELSE IF countReservationsForPresence(id) > 0 /\ ~ body.confirm_impact
       THEN /\ last' = [Response("editPresence", 200, "Coche la case pour confirmer")
                           EXCEPT !.cnt = countReservationsForPresence(id)]
            /\ edit' = edit
       ELSE /\ SerialsLeft(WindowSize(body))
            /\ last' = last
            /\ edit' = [Idle EXCEPT !.pc = "begin", !.id = id,
                                    !.location = body.location, !.date = body.date,
                                    !.start_time = body.start_time,
                                    !.end_time = body.end_time,
                                    !.confirm_impact = body.confirm_impact,
                                    !.cnt = countReservationsForPresence(id)]

\* the UPDATE run on the pool, outside the transaction: the row changes at once
UpdateOutsideTransaction ==
    /\ closed' = closed
    /\ edit.pc = "begin"
    /\ edit' = [edit EXCEPT !.pc = "updated"]
    /\ presences' =
            {IF p.id = edit.id
             THEN [p EXCEPT !.location = edit.location, !.date = edit.date,
                            !.start_time = edit.start_time, !.end_time = edit.end_time]
             ELSE p : p \in presences}
    /\ UNCHANGED <<slots, reservations, nextPresenceId, nextSlotId, nextReservationId,
                   now, issued, last>>

\* await tx`UPDATE presences SET ... WHERE id = ...`: the new row is the
\* transaction's own until it commits
TxUpdate ==
    /\ closed' = closed
    /\ edit.pc = "begin"
    /\ edit' = [edit EXCEPT !.pc = "updated"]
    /\ UNCHANGED <<store, now, issued, last>>

\* await tx`DELETE FROM slots WHERE presence_id = ...`: the slots the statement
\* finds are deleted for the transaction, and locked for the others
TxDelete ==
    /\ closed' = closed
    /\ edit.pc = "updated"
    /\ edit' = [edit EXCEPT !.pc = "deleted", !.deleted = SlotsOf(edit.id)]
    /\ UNCHANGED <<store, now, issued, last>>

\* await tx`INSERT INTO slots ... generate_series ... ON CONFLICT DO NOTHING`: the
\* serial ids are drawn for good, the rows are the transaction's own
TxInsert ==
    LET instants == SlotInstants(edit.date, edit.start_time, edit.end_time)
    IN  /\ edit.pc = "deleted"
        /\ closed' = closed
        /\ SerialsLeft(Cardinality(instants))
        /\ edit' = [edit EXCEPT !.pc = "inserted",
                                !.inserted = InsertSlots({}, edit.id, instants)]
        /\ nextSlotId' = nextSlotId + Cardinality(instants)
        /\ UNCHANGED <<presences, slots, reservations, nextPresenceId,
                       nextReservationId, now, issued, last>>

\* the callback of sql.begin returns: COMMIT, and res.redirect("/admin/presences");
\* the delete cascades to the reservations on the deleted slots
TxCommit ==
    /\ closed' = closed
    /\ edit.pc = "inserted"
    /\ presences' =
            {IF p.id = edit.id
             THEN [p EXCEPT !.location = edit.location, !.date = edit.date,
                            !.start_time = edit.start_time, !.end_time = edit.end_time]
             ELSE p : p \in presences}
    /\ slots' = (slots \ edit.deleted) \cup edit.inserted
    /\ reservations' = reservations \ ReservationsOn(edit.deleted)
    /\ last' = [Response("editPresence", 302, "/admin/presences")
                   EXCEPT !.cnt = edit.cnt,
                          !.erased = Cardinality(ReservationsOn(edit.deleted))]
    /\ edit' = Idle
    /\ UNCHANGED <<nextPresenceId, nextSlotId, nextReservationId, now, issued>>

\* a statement of the transaction rejects: ROLLBACK, the handler's promise rejects
TxAbort ==
    /\ closed' = closed
    /\ edit.pc \in {"begin", "updated", "deleted", "inserted"}
    /\ edit' = Idle
    /\ last' = Response("editPresence", 500, "error")
    /\ UNCHANGED <<store, now, issued>>

\* INSERT INTO reservations waits for the transaction that deleted the slot
Locked(slotId) == \E s \in edit.deleted : s.id = slotId

----------------------------------------------------------------------------
(* Listings *)

\* ORDER BY p.date ASC, p.location ASC, s.start_at ASC; rows with equal keys come in
\* either order of their ids
SlotRowBefore(a, b, tie) ==
    IF a.date # b.date THEN a.date < b.date
    ELSE IF a.location # b.location THEN TextLess(a.location, b.location)
    ELSE IF a.start_at # b.start_at THEN a.start_at < b.start_at
    ELSE IF tie THEN a.id < b.id ELSE a.id > b.id

\* the order of the slot listing applied to the reservations: location before instant
ReservationRowBeforeByLocation(a, b, tie) ==
    IF a.date # b.date THEN a.date < b.date
    ELSE IF a.location # b.location THEN TextLess(a.location, b.location)
    ELSE IF a.start_at # b.start_at THEN a.start_at < b.start_at
    ELSE IF tie THEN a.id < b.id ELSE a.id > b.id

\* ORDER BY p.date ASC, s.start_at ASC
ReservationRowBefore(a, b, tie) ==
    IF a.date # b.date THEN a.date < b.date
    ELSE IF a.start_at # b.start_at THEN a.start_at < b.start_at
    ELSE IF tie THEN a.id < b.id ELSE a.id > b.id

RECURSIVE SortSlotRows(_, _)
SortSlotRows(S, tie) ==
    IF S = {} THEN <<>>
    ELSE LET m == CHOOSE x \in S : \A y \in S \ {x} : SlotRowBefore(x, y, tie)
         IN  <<m>> \o SortSlotRows(S \ {m}, tie)

RECURSIVE SortReservationRows(_, _)
SortReservationRows(S, tie) ==
    IF S = {} THEN <<>>
    ELSE LET m == CHOOSE x \in S : \A y \in S \ {x} : ReservationRowBefore(x, y, tie)
         IN  <<m>> \o SortReservationRows(S \ {m}, tie)

\* LIMIT n
Limit(rows, n) == IF Len(rows) > n THEN SubSeq(rows, 1, n) ELSE rows

\* `%${filter}%`
Contains(filter) == <<"%">> \o filter \o <<"%">>

\* the selection with s.start_at > NOW(): a slot starting now is left out
UpcomingSlotRowsAfterNow(dateFilter, locationFilter) ==
    {[id |-> s.id, start_at |-> s.start_at,
      location |-> PresenceRow(s.presence_id).location,
      date |-> PresenceRow(s.presence_id).date] :
        s \in {x \in slots :
                 /\ x.start_at > now
                 /\ dateFilter # Absent => DateOf(x.start_at) = dateFilter
                 /\ locationFilter # <<>> =>
                        ILike(PresenceRow(x.presence_id).location,
                              Contains(locationFilter))}}

\* the rows of listUpcomingSlots({dateFilter, locationFilter}) before ORDER BY
UpcomingSlotRows(dateFilter, locationFilter) ==
    {[id |-> s.id, start_at |-> s.start_at,
      location |-> PresenceRow(s.presence_id).location,
      date |-> PresenceRow(s.presence_id).date] :
        s \in {x \in slots :
                 /\ x.start_at >= now
                 /\ dateFilter # Absent => DateOf(x.start_at) = dateFilter
                 /\ locationFilter # <<>> =>
                        ILike(PresenceRow(x.presence_id).location,
                              Contains(locationFilter))}}

listUpcomingSlots(dateFilter, locationFilter, tie) ==
    SortSlotRows(UpcomingSlotRows(dateFilter, locationFilter), tie)

\* the rows of listReservations({date, location}) before ORDER BY
ReservationRows(date, location) ==
    {[id |-> r.id, token |-> r.token, quantity |-> r.quantity,
      start_at |-> SlotRow(r.slot_id).start_at,
      location |-> PresenceRow(SlotRow(r.slot_id).presence_id).location,
      date |-> PresenceRow(SlotRow(r.slot_id).presence_id).date] :
        r \in {x \in reservations :
                 /\ date # Absent =>
                        PresenceRow(SlotRow(x.slot_id).presence_id).date = date
                 /\ location # <<>> =>
                        ILike(PresenceRow(SlotRow(x.slot_id).presence_id).location,
                              Contains(location))}}

listReservations(date, location, tie) ==
    Limit(SortReservationRows(ReservationRows(date, location), tie), ListLimit)

\* a call of listUpcomingSlots, as app.get("/") makes
ListUpcomingSlots(dateFilter, locationFilter) ==
    /\ UNCHANGED <<edit, closed>>
    /\ UNCHANGED <<store, now, issued>>
    /\ \E tie \in BOOLEAN :
         last' = [Response("listUpcomingSlots", 200, "rows")
                     EXCEPT !.rows = listUpcomingSlots(dateFilter, locationFilter, tie)]

\* a call of listReservations, as app.get("/admin/reservations") makes
ListReservations(date, location) ==
    /\ UNCHANGED <<edit, closed>>
    /\ UNCHANGED <<store, now, issued>>
    /\ \E tie \in BOOLEAN :
         last' = [Response("listReservations", 200, "rows")
                     EXCEPT !.rows = listReservations(date, location, tie)]

\* app.get("/admin"): the presences and the reservations of today
AdminDashboard ==
    /\ UNCHANGED <<store, now, issued, edit, closed>>
    /\ \E tie \in BOOLEAN :
         last' = [Response("dashboard", 200, "admin/dashboard")
                     EXCEPT !.rows = listReservations(DateOf(now), <<>>, tie)]

----------------------------------------------------------------------------
Next ==
    \/ Tick(ClockPoints)
    \/ \E slotId \in 1..nextSlotId, body \in ReservationBodies : PostReserve(slotId, body)
    \/ \E token \in Tokens, body \in ReservationBodies :
          PostEdit(token, body) /\ NotNoted
    \/ \E token \in Tokens : PostCancel(token) /\ NotNoted
    \/ \E token \in Tokens : AdminDeleteReservation(token)
    \/ \E body \in PresenceBodies : AdminCreatePresence(body)
    \/ \E id \in 1..nextPresenceId, body \in PresenceBodies : AdminEditPresence(id, body)
    \/ \E id \in 1..nextPresenceId : AdminDeletePresence(id)

Spec == Init /\ [][Next]_vars

\* the confirmation mail: bookings with and without an address, and cancellations
NextMail ==
    \/ \E body \in PresenceBodies : AdminCreatePresence(body)
    \/ \E slotId \in 1..nextSlotId, body \in MailBodies : PostReserve(slotId, body)
    \/ \E token \in Tokens : PostCancel(token) /\ NotNoted

SpecMail == Init /\ [][NextMail]_vars

\* the forms: bookings, reservation edits, presence creations and presence edits
\* with every form, valid or not
NextForms ==
    \/ \E body \in PresenceBodies : AdminCreatePresence(body)
    \/ \E slotId \in 1..nextSlotId, body \in ReservationBodies : PostReserve(slotId, body)
    \/ \E token \in Tokens, body \in ReservationBodies :
          PostEdit(token, body) /\ NotNoted
    \/ \E id \in 1..nextPresenceId, body \in PresenceBodies : AdminEditPresence(id, body)

SpecForms == Init /\ [][NextForms]_vars

\* the mutation window: the clock passes the slots one by one, reservations are
\* booked, edited, cancelled and deleted, presences are edited and deleted, and
\* every refusal with 403 is kept
NextClosing ==
    \/ Tick(ClosingClockPoints)
    \/ \E body \in ClosingBodies : AdminCreatePresence(body)
    \/ \E slotId \in 1..nextSlotId : PostReserve(slotId, ValidBody)
    \/ \E token \in Tokens, body \in EditBodies :
          PostEdit(token, body) /\ Noted(token)
    \/ \E token \in Tokens : PostCancel(token) /\ Noted(token)
    \/ \E token \in Tokens : AdminDeleteReservation(token)
    \/ \E id \in 1..nextPresenceId, body \in ClosingBodies : AdminEditPresence(id, body)
    \/ \E id \in 1..nextPresenceId : AdminDeletePresence(id)

SpecClosing == Init /\ [][NextClosing]_vars

\* the administrator: logins, and the routes behind requireAdmin with every cookie
NextAdmin ==
    \/ Tick(AdminClockPoints)
    \/ \E slotId \in 1..nextSlotId : PostReserve(slotId, ValidBody)
    \/ \E password \in Passwords : PostLogin(password)
    \/ \E cookie \in Cookies : AdminRoute(cookie, AdminDashboard)
    \/ \E cookie \in Cookies, body \in AdminBodies :
          AdminRoute(cookie, AdminCreatePresence(body))
    \/ \E cookie \in Cookies, id \in 1..nextPresenceId, body \in AdminBodies :
          AdminRoute(cookie, AdminEditPresence(id, body))
    \/ \E cookie \in Cookies, id \in 1..nextPresenceId :
          AdminRoute(cookie, AdminDeletePresence(id))
    \/ \E cookie \in Cookies : AdminRoute(cookie, ListReservations(Absent, <<>>))
    \/ \E cookie \in Cookies, token \in Tokens :
          AdminRoute(cookie, AdminDeleteReservation(token))

SpecAdmin == Init /\ [][NextAdmin]_vars

\* the presence edit await by await, with bookings and new presences between
NextRegeneration ==
    \/ \E body \in RegenerationBodies : AdminCreatePresence(body)
    \/ \E slotId \in 1..nextSlotId : ~ Locked(slotId) /\ PostReserve(slotId, ValidBody)
    \/ \E id \in 1..nextPresenceId, body \in RegenerationBodies : EditBegin(id, body)
    \/ TxUpdate
    \/ TxDelete
    \/ TxInsert
    \/ TxCommit
    \/ TxAbort

SpecRegeneration == Init /\ [][NextRegeneration]_vars

\* the slot generation: presences created, edited and deleted over every window,
\* with bookings between
NextWindows ==
    \/ \E slotId \in 1..nextSlotId : PostReserve(slotId, ValidBody)
    \/ \E body \in WindowBodies : AdminCreatePresence(body)
    \/ \E id \in 1..nextPresenceId, body \in WindowBodies : AdminEditPresence(id, body)
    \/ \E id \in 1..nextPresenceId : AdminDeletePresence(id)

SpecWindows == Init /\ [][NextWindows]_vars

\* the listings: presences over places and days, bookings, and the two listings
NextListings ==
    \/ Tick(ListClockPoints)
    \/ \E body \in ListedBodies : AdminCreatePresence(body)
    \/ \E slotId \in 1..nextSlotId : PostReserve(slotId, ValidBody)
    \/ \E d \in DateFilters, f \in LocationFilters : ListUpcomingSlots(d, f)
    \/ \E d \in DateFilters, f \in LocationFilters : ListReservations(d, f)

SpecListings == Init /\ [][NextListings]_vars

----------------------------------------------------------------------------
(* Properties *)

\* the reservations on the slots of a presence, read off the tables
ReservationsOfPresence(id) ==
    {r \in reservations : \E s \in slots : s.id = r.slot_id /\ s.presence_id = id}

\* the start instant of the slot a reservation is on
StartOf(r) == (CHOOSE s \in slots : s.id = r.slot_id).start_at

\* C1: a booking request for a slot that is already past, deleted or of unknown id
\* is answered not-found and inserts no reservation, whatever the form holds.
C1_MissingSlotNotFound ==
    [][last'.op = "reserve" =>
          \A slotId \in 1..(MaxSerial + 1), body \in ReservationBodies :
              (/\ \A s \in slots : s.id = slotId => s.start_at < now
               /\ PostReserve(slotId, body))
              => (last'.status = 404 /\ reservations' = reservations)]_vars

\* a booking form the claims call valid, and the quantity it asks for
FormIsValid(body) ==
    /\ body.first_name # "" /\ body.last_name # "" /\ body.phone # ""
    /\ body.quantity \in {<<"1">>, <<"2">>}

FormQuantity(body) == IF body.quantity = <<"1">> THEN 1 ELSE 2

\* the row r after an edit with a valid form
Edited(r, body) ==
    [id |-> r.id, slot_id |-> r.slot_id, token |-> r.token,
     first_name |-> body.first_name, last_name |-> body.last_name,
     phone |-> body.phone, quantity |-> FormQuantity(body),
     comment |-> IF body.comment = "" THEN SqlNull ELSE body.comment]

\* C2: for a reservation whose slot starts at or before now, edit and cancel are
\* refused with 403 for every form and leave the rows as they are; for a reservation
\* whose slot starts after now, cancel deletes the row and edit with a valid form
\* updates it.
C2_MutationWindow ==
    [][last'.op \in {"edit", "cancel"} =>
          \A r \in reservations :
              /\ (StartOf(r) <= now /\ PostCancel(r.token))
                    => (last'.status = 403 /\ reservations' = reservations)
              /\ (StartOf(r) > now /\ PostCancel(r.token))
                    => (last'.status = 200 /\ reservations' = reservations \ {r})
              /\ \A body \in ReservationBodies :
                    /\ (StartOf(r) <= now /\ PostEdit(r.token, body))
                          => (last'.status = 403 /\ reservations' = reservations)
                    /\ (StartOf(r) > now /\ FormIsValid(body) /\ PostEdit(r.token, body))
                          => (/\ last'.status = 200
                              /\ reservations' =
                                    (reservations \ {r}) \cup {Edited(r, body)})]_vars

\* an edit was refused on a reservation whose slot starts exactly now
C2_Witness ==
    /\ last.op = "edit" /\ last.status = 403
    /\ \E r \in reservations : StartOf(r) = now

\* a presence form the claims call valid: every field filled in, start before end
PresenceFormIsValid(body) ==
    /\ body.location # <<>> /\ body.date # Absent
    /\ body.start_time # Absent /\ body.end_time # Absent
    /\ body.start_time < body.end_time

\* the whole quarters of an hour of a window: start, start + 15, ... as long as the
\* quarter ends at or before the end of the window
QuarterHours(date, start_time, end_time) ==
    {t \in Instant(date, start_time)..Instant(date, end_time) :
        /\ (t - Instant(date, start_time)) % 15 = 0
        /\ t + 15 <= Instant(date, end_time)}

\* the presence row id holds the fields of the form
PresenceHolds(rows, id, body) ==
    \E p \in rows :
        /\ p.id = id /\ p.location = body.location /\ p.date = body.date
        /\ p.start_time = body.start_time /\ p.end_time = body.end_time

\* C3: a presence edit with valid fields on a presence with N > 0 reservations and
\* no confirmation flag is refused, reports N and changes nothing; with the flag, or
\* with N = 0, it succeeds and the slots of the presence are generated anew.
C3_ImpactConfirmation ==
    [][last'.op = "editPresence" =>
          \A p \in presences, body \in PresenceBodies :
              (PresenceFormIsValid(body) /\ AdminEditPresence(p.id, body)) =>
                  LET N == Cardinality(ReservationsOfPresence(p.id))
                  IN  IF N > 0 /\ ~ body.confirm_impact
                      THEN /\ last'.status = 200
                           /\ last'.view = "Coche la case pour confirmer"
                           /\ last'.cnt = N
                           /\ UNCHANGED <<presences, slots, reservations>>
                      ELSE /\ last'.status = 302
                           /\ PresenceHolds(presences', p.id, body)
                           /\ \A s \in slots' :
                                s.presence_id = p.id => s.id >= nextSlotId
                           /\ {s.start_at : s \in {x \in slots' : x.presence_id = p.id}}
                                = QuarterHours(body.date, body.start_time, body.end_time)]_vars

\* an edit was refused for want of the flag and reported the two reservations at stake
C3_Witness ==
    /\ last.op = "editPresence" /\ last.view = "Coche la case pour confirmer"
    /\ last.cnt = 2
    /\ \E p \in presences : Cardinality(ReservationsOfPresence(p.id)) = 2

\* C4: a regeneration removes every slot the presence had and every reservation on
\* them, also when the window stays the same; afterwards countReservationsForPresence
\* is 0 and the presence has one slot per whole quarter of an hour of the new window.
C4_RegenerationErases ==
    [][(last'.op = "editPresence" /\ last'.status = 302) =>
          \A p \in presences, body \in PresenceBodies :
              AdminEditPresence(p.id, body) =>
                  /\ \A s \in SlotsOf(p.id) : \A x \in slots' : x.id # s.id
                  /\ \A r \in ReservationsOfPresence(p.id) :
                        \A x \in reservations' : x.id # r.id /\ x.token # r.token
                  /\ countReservationsForPresence(p.id)' = 0
                  /\ {s.start_at : s \in SlotsOf(p.id)'}
                        = QuarterHours(body.date, body.start_time, body.end_time)
                  /\ Cardinality(SlotsOf(p.id)')
                        = Cardinality(QuarterHours(body.date, body.start_time,
                                                   body.end_time))]_vars

\* a regeneration erased a reservation and left the presence with slots and no
\* reservation
C4_Witness ==
    /\ last.op = "editPresence" /\ last.status = 302 /\ last.erased > 0
    /\ \E p \in presences :
        /\ SlotsOf(p.id) # {}
        /\ countReservationsForPresence(p.id) = 0

\* C5: deleting an existing presence needs no confirmation and removes the presence,
\* its slots and the reservations on them: the lookups by id and by token find
\* nothing afterwards, and the slots and reservations of the other presences stay.
C5_DeleteCascades ==
    [][last'.op = "deletePresence" =>
          \A p \in presences :
              AdminDeletePresence(p.id) =>
                  /\ last'.status = 302
                  /\ slots' = {s \in slots : s.presence_id # p.id}
                  /\ reservations' = reservations \ ReservationsOfPresence(p.id)
                  /\ getPresenceById(p.id)' = NULL
                  /\ \A s \in SlotsOf(p.id) : getSlotById(s.id)' = NULL
                  /\ \A r \in ReservationsOfPresence(p.id) :
                        getReservationByToken(r.token)' = NULL]_vars

\* a presence was deleted with a reservation on it, and another presence keeps its slots
C5_Witness ==
    /\ last.op = "deletePresence" /\ last.status = 302 /\ last.erased > 0
    /\ slots # {}

\* the start instants of the slots the rows S hold for presence id
InstantsOf(S, id) == {s.start_at : s \in {x \in S : x.presence_id = id}}

\* C6: for a window with start < end whose length is a multiple of 15 minutes,
\* createPresence inserts exactly (end - start) / 15 min slots, 15 minutes apart, the
\* first at start and the last before end.
C6_WholeWindowSlots ==
    [][(last'.op = "createPresence" /\ last'.status = 302) =>
          \A body \in WindowBodies :
              (/\ body.start_time < body.end_time
               /\ (body.end_time - body.start_time) % 15 = 0
               /\ AdminCreatePresence(body)) =>
                  LET new == slots' \ slots
                      inst == {s.start_at : s \in new}
                      ts == Instant(body.date, body.start_time)
                      te == Instant(body.date, body.end_time)
                  IN  /\ slots \subseteq slots'
                      /\ \A s \in new : s.presence_id = nextPresenceId
                      /\ Cardinality(new) = (te - ts) \div 15
                      /\ Cardinality(inst) = Cardinality(new)
                      /\ ts \in inst
                      /\ \A t \in inst : t < te /\ (t = ts \/ t - 15 \in inst)]_vars

\* the presence created last has the window 09:00-10:00 and the four slots 09:00,
\* 09:15, 09:30 and 09:45
C6_Witness ==
    /\ last.op = "createPresence" /\ last.status = 302
    /\ \E p \in presences :
        /\ p.id = nextPresenceId - 1
        /\ p.start_time = 540 /\ p.end_time = 600
        /\ Cardinality(SlotsOf(p.id)) = 4
        /\ InstantsOf(slots, p.id) =
              {Instant(p.date, 540), Instant(p.date, 555), Instant(p.date, 570),
               Instant(p.date, 585)}

\* the instants start, start + 15, ... that lie before the end of the window
GridBelowEnd(date, start_time, end_time) ==
    {t \in Instant(date, start_time)..(Instant(date, end_time) - 1) :
        (t - Instant(date, start_time)) % 15 = 0}

\* C7 as stated: whatever the length of the window, the slots generated are the
\* instants start + k * 15 min that are before end.
C7_EveryInstantBelowEnd ==
    [][(last'.op \in {"createPresence", "editPresence"} /\ last'.status = 302) =>
          \A body \in WindowBodies :
              /\ AdminCreatePresence(body) =>
                    InstantsOf(slots' \ slots, nextPresenceId)
                        = GridBelowEnd(body.date, body.start_time, body.end_time)
              /\ \A p \in presences :
                    AdminEditPresence(p.id, body) =>
                        InstantsOf(slots', p.id)
                            = GridBelowEnd(body.date, body.start_time, body.end_time)]_vars

\* C7 amended: whatever the length of the window, the slots generated are the
\* instants start + k * 15 min with start + (k + 1) * 15 min at or before end: a last
\* part of the window shorter than 15 minutes gets no slot.
C7_EveryWholeQuarter ==
    [][(last'.op \in {"createPresence", "editPresence"} /\ last'.status = 302) =>
          \A body \in WindowBodies :
              /\ AdminCreatePresence(body) =>
                    InstantsOf(slots' \ slots, nextPresenceId)
                        = QuarterHours(body.date, body.start_time, body.end_time)
              /\ \A p \in presences :
                    AdminEditPresence(p.id, body) =>
                        InstantsOf(slots', p.id)
                            = QuarterHours(body.date, body.start_time, body.end_time)]_vars

\* a presence whose window 09:00-09:25 was generated with the one slot 09:00
C7_Witness ==
    /\ last.op \in {"createPresence", "editPresence"} /\ last.status = 302
    /\ \E p \in presences :
        /\ p.start_time = 540 /\ p.end_time = 565
        /\ InstantsOf(slots, p.id) = {Instant(p.date, 540)}

\* the location and the date of the presence a slot belongs to
LocationOfSlot(s) == (CHOOSE p \in presences : p.id = s.presence_id).location

DateOfSlot(s) == (CHOOSE p \in presences : p.id = s.presence_id).date

SlotOf(r) == CHOOSE s \in slots : s.id = r.slot_id

\* text t holds filter f as a substring, letter case apart
HasSubstring(t, f) ==
    \E i \in 0..(Len(t) - Len(f)) : \A j \in 1..Len(f) : Lower(t[i + j]) = Lower(f[j])

\* a filter without the wildcards of LIKE
PlainFilter(f) == \A j \in 1..Len(f) : f[j] \notin {"%", "_"}

\* a location passes the location filter: the filter is empty, or a substring of it
\* letter case apart, or, with wildcards, a LIKE pattern matching a part of it
PassesLocation(location, f) ==
    \/ f = <<>>
    \/ PlainFilter(f) /\ HasSubstring(location, f)
    \/ ~ PlainFilter(f) /\ ILike(location, Contains(f))

\* row a comes no later than row b by (date, location, instant)
ByDateLocationInstant(a, b) ==
    \/ a.date < b.date
    \/ a.date = b.date /\ TextLess(a.location, b.location)
    \/ a.date = b.date /\ a.location = b.location /\ a.start_at <= b.start_at

\* row a comes no later than row b by (date, instant)
ByDateInstant(a, b) ==
    \/ a.date < b.date
    \/ a.date = b.date /\ a.start_at <= b.start_at

\* C8: listUpcomingSlots returns no slot that starts before now, returns every slot
\* starting at or after now that passes the filters, once, and orders the rows by
\* (presence date, location, slot instant).
C8_UpcomingSlotsListed ==
    [][last'.op = "listUpcomingSlots" =>
          \A d \in DateFilters, f \in LocationFilters :
              ListUpcomingSlots(d, f) =>
                  LET rows == last'.rows
                      due == {s \in slots :
                                /\ s.start_at >= now
                                /\ d # Absent => DateOf(s.start_at) = d
                                /\ PassesLocation(LocationOfSlot(s), f)}
                  IN  /\ \A i \in 1..Len(rows) : rows[i].start_at >= now
                      /\ {rows[i].id : i \in 1..Len(rows)} = {s.id : s \in due}
                      /\ Len(rows) = Cardinality(due)
                      /\ \A i \in 1..Len(rows) :
                            \E s \in due :
                                /\ s.id = rows[i].id /\ s.start_at = rows[i].start_at
                                /\ LocationOfSlot(s) = rows[i].location
                                /\ DateOfSlot(s) = rows[i].date
                      /\ \A i, j \in 1..Len(rows) :
                            i < j => ByDateLocationInstant(rows[i], rows[j])]_vars

\* a listing whose first row is a slot starting now, with a second row of another
\* place or day, while a slot that started earlier is in the table
C8_Witness ==
    /\ last.op = "listUpcomingSlots" /\ Len(last.rows) >= 2
    /\ last.rows[1].start_at = now
    /\ <<last.rows[1].date, last.rows[1].location>>
          # <<last.rows[2].date, last.rows[2].location>>
    /\ \E s \in slots : s.start_at < now

\* C9 as stated: listReservations orders its rows like listUpcomingSlots, by presence
\* date, then location, then slot instant.
C9_OrderedLikeSlots ==
    [][last'.op = "listReservations" =>
          \A i, j \in 1..Len(last'.rows) :
              i < j => ByDateLocationInstant(last'.rows[i], last'.rows[j])]_vars

\* C9 amended: listReservations returns the reservations of the presence date asked
\* for, if any, whose location passes the location filter, at most 100 of them,
\* ordered by presence date, then slot instant; the location is no part of the order.
C9_ReservationsListed ==
    [][last'.op = "listReservations" =>
          \A d \in DateFilters, f \in LocationFilters :
              ListReservations(d, f) =>
                  LET rows == last'.rows
                      asked == {r \in reservations :
                                  /\ d # Absent => DateOfSlot(SlotOf(r)) = d
                                  /\ PassesLocation(LocationOfSlot(SlotOf(r)), f)}
                  IN  /\ Len(rows) <= 100
                      /\ {rows[i].id : i \in 1..Len(rows)} \subseteq {r.id : r \in asked}
                      /\ Cardinality(asked) <= 100 =>
                            /\ {rows[i].id : i \in 1..Len(rows)} = {r.id : r \in asked}
                            /\ Len(rows) = Cardinality(asked)
                      /\ \A i \in 1..Len(rows) :
                            \E r \in asked :
                                /\ r.id = rows[i].id /\ r.token = rows[i].token
                                /\ SlotOf(r).start_at = rows[i].start_at
                                /\ LocationOfSlot(SlotOf(r)) = rows[i].location
                                /\ DateOfSlot(SlotOf(r)) = rows[i].date
                      /\ \A i, j \in 1..Len(rows) :
                            i < j => ByDateInstant(rows[i], rows[j])]_vars

\* a listing of two reservations of one day, the earlier slot first although its
\* location sorts after the other one
C9_Witness ==
    /\ last.op = "listReservations" /\ Len(last.rows) = 2
    /\ last.rows[1].date = last.rows[2].date
    /\ last.rows[1].start_at < last.rows[2].start_at
    /\ TextLess(last.rows[2].location, last.rows[1].location)

\* no two reservations in the store share a token
TokensDistinct == \A r, q \in reservations : r.token = q.token => r = q

\* the step is a booking request
Booking ==
    /\ last'.op = "reserve"
    /\ \E slotId \in 1..nextSlotId, body \in ReservationBodies : PostReserve(slotId, body)

\* a booking that did not succeed inserts no row
FailedBookingInsertsNothing ==
    [][(Booking /\ last'.status # 200) => reservations' = reservations]_vars

\* C10 as stated: no two stored reservations share a token, each successful booking
\* returns a token different from every token issued earlier, and a colliding token
\* surfaces as an error, never as a second row.
C10_NeverIssuedBefore ==
    /\ []TokensDistinct
    /\ [][(Booking /\ last'.status = 200) =>
              \A r \in reservations' \ reservations : r.token \notin issued]_vars
    /\ FailedBookingInsertsNothing

\* C10 amended: no two stored reservations share a token, each successful booking
\* inserts one row whose token differs from the token of every reservation then in
\* the store, and a colliding token surfaces as an error, never as a second row.
C10_TokenUniqueInStore ==
    /\ []TokensDistinct
    /\ [][(Booking /\ last'.status = 200) =>
              \E r \in reservations' :
                  /\ reservations' = reservations \cup {r}
                  /\ \A q \in reservations : q.token # r.token /\ q.id # r.id
                  /\ r.token \in issued']_vars
    /\ FailedBookingInsertsNothing

\* a booking that drew the token of a stored reservation and ended in an error
C10_Witness ==
    /\ last.op = "reserve" /\ last.status = 500
    /\ reservations # {}
    /\ \A t \in Tokens : t \in issued

\* the step is a booking request of the mail forms
BookingWithMail(body) ==
    /\ last'.op = "reserve"
    /\ \E slotId \in 1..nextSlotId : PostReserve(slotId, body)

\* C11: the confirmation mail is attempted only when the reservation has been inserted
\* and an address was given; when sending fails the reservation stays in the store
\* and the requester gets the confirmation page with the token, never an error.
C11_MailAfterInsert ==
    [][last'.op = "reserve" =>
          \A body \in MailBodies :
              BookingWithMail(body) =>
                  /\ last'.mail # NoMail =>
                        /\ body.email # ""
                        /\ \E r \in reservations' \ reservations :
                               r.token = last'.token
                  /\ (last'.status = 200 /\ body.email # "") => last'.mail # NoMail
                  /\ last'.mail = "failed" =>
                        /\ last'.status = 200 /\ last'.view = "confirm"
                        /\ \E r \in reservations' : r.token = last'.token]_vars

\* a booking whose mail failed: the page is the confirmation and the row is stored
C11_Witness ==
    /\ last.op = "reserve" /\ last.mail = "failed" /\ last.status = 200
    /\ \E r \in reservations : r.token = last.token

\* the rows of presence p and its slots fit: the slots are those of the window
\* the row holds
RowFitsSlots(p) ==
    InstantsOf(slots, p.id) = QuarterHours(p.date, p.start_time, p.end_time)

\* the step is a statement of the transaction of the presence edit, or its rollback
TransactionStep == TxUpdate \/ TxDelete \/ TxInsert \/ TxAbort

\* C12: the regeneration is atomic. In every state, the edit in progress or not, each
\* presence row read from the tables has the slots of its own window: never the new
\* row with the old slots, never the slots deleted without the new ones. The
\* statements of the transaction and its rollback leave presences, slots and
\* reservations as they were; the commit puts the new row, the new slots and the
\* cascade in place in one step.
C12_RegenerationAtomic ==
    /\ [](\A p \in presences : RowFitsSlots(p))
    /\ [][(edit.pc # "idle" /\ TransactionStep) => tables' = tables]_vars
    /\ [][(edit.pc = "inserted" /\ TxCommit) =>
              /\ PresenceHolds(presences', edit.id, edit)
              /\ slots' \cap edit.deleted = {}
              /\ InstantsOf(slots', edit.id)
                    = QuarterHours(edit.date, edit.start_time, edit.end_time)
              /\ \A r \in reservations' : \E s \in slots' : s.id = r.slot_id]_vars

\* the transaction was rolled back after its DELETE and INSERT, other slots than
\* before in its window, and the presence still has its reservation
C12_Witness ==
    /\ last.op = "editPresence" /\ last.status = 500 /\ edit = Idle
    /\ \E p \in presences :
          /\ nextSlotId > 2
          /\ Cardinality(slots) = 1
          /\ ReservationsOfPresence(p.id) # {}

\* a cookie that is no credential: absent, signed with another secret, or expired
NoCredential(cookie) ==
    cookie = NoCookie \/ cookie.secret # SESSION_SECRET \/ cookie.exp <= now

\* the request is refused: sent to the login page, the tables as they were
SentToLogin ==
    /\ last'.status = 302 /\ last'.view = "/admin/login"
    /\ tables' = tables

\* C13: a login sets a credential exactly when the password is the configured one,
\* and every administrative request (dashboard, presence create, edit and delete,
\* reservation list and delete) whose cookie is absent, wrongly signed or expired is
\* redirected to the login page and leaves presences, slots and reservations alone.
C13_AdminCredential ==
    /\ [][last'.op = "login" =>
              \A password \in Passwords :
                  PostLogin(password) =>
                      /\ last'.cookie # NoCookie <=> password = ADMIN_PASSWORD
                      /\ last'.cookie # NoCookie => ~ NoCredential(last'.cookie)]_vars
    /\ [][\A cookie \in Cookies :
              NoCredential(cookie) =>
                  /\ AdminRoute(cookie, AdminDashboard) => SentToLogin
                  /\ AdminRoute(cookie, ListReservations(Absent, <<>>)) => SentToLogin
                  /\ \A body \in AdminBodies :
                        AdminRoute(cookie, AdminCreatePresence(body)) => SentToLogin
                  /\ \A id \in 1..nextPresenceId, body \in AdminBodies :
                        AdminRoute(cookie, AdminEditPresence(id, body)) => SentToLogin
                  /\ \A id \in 1..nextPresenceId :
                        AdminRoute(cookie, AdminDeletePresence(id)) => SentToLogin
                  /\ \A token \in Tokens :
                        AdminRoute(cookie, AdminDeleteReservation(token))
                            => SentToLogin]_vars

\* a request sent to the login page a week after the login, the cookie of that login
\* expired, with a presence and a reservation in the tables
C13_Witness ==
    /\ last.op = "requireAdmin" /\ last.status = 302
    /\ now = Instant(7, 530)
    /\ presences # {} /\ reservations # {}

\* the step is a self-service edit or cancel request for the token
SelfService(token) ==
    /\ last'.op \in {"edit", "cancel"}
    /\ \/ PostCancel(token)
       \/ \E body \in EditBodies : PostEdit(token, body)

\* C14 as stated: once an edit or cancel for a token was refused with 403, every later
\* edit or cancel for that token is refused with 403 or 404 and changes no reservation.
C14_RefusedForGood ==
    [][last'.op \in {"edit", "cancel"} =>
          \A c \in closed :
              SelfService(c.token) =>
                  /\ last'.status \in {403, 404}
                  /\ reservations' = reservations]_vars

\* C14 amended: once an edit or cancel for a token was refused with 403, every later
\* edit or cancel for that token is refused with 403 or 404 and changes nothing, as
\* long as the token designates the reservation it was refused for or none; and no
\* edit or cancel for any token modifies or deletes that reservation.
C14_ClosedStaysClosed ==
    [][last'.op \in {"edit", "cancel"} =>
          \A c \in closed :
              /\ (/\ \A r \in reservations : r.token = c.token => r.id = c.id
                  /\ SelfService(c.token)) =>
                    /\ last'.status \in {403, 404}
                    /\ reservations' = reservations
              /\ (\E token \in Tokens : SelfService(token)) =>
                    \A r \in reservations : r.id = c.id => r \in reservations']_vars

\* the second slot has begun, a request was refused for a reservation on the first
\* slot that is still stored as booked, and the last request was refused too
C14_Witness ==
    /\ last.op \in {"edit", "cancel"} /\ last.status = 403
    /\ now = Instant(0, 555)
    /\ \E c \in closed, r \in reservations :
          /\ r.id = c.id /\ r.token = c.token
          /\ StartOf(r) = Instant(0, 540)
          /\ r.quantity = 1

\* C15: in every state reached by creating, editing and deleting presences, with
\* bookings between, a presence has at most one slot per start instant, its slots
\* are exactly the 15-minute slots of the window its row holds now, and every slot
\* belongs to a stored presence.
C15_SlotSetInvariant ==
    /\ \A s, t \in slots :
          (s.presence_id = t.presence_id /\ s.start_at = t.start_at) => s = t
    /\ \A p \in presences :
          InstantsOf(slots, p.id) = QuarterHours(p.date, p.start_time, p.end_time)
    /\ \A s \in slots : \E p \in presences : p.id = s.presence_id

\* a presence was deleted, another one was edited into the window 09:15-10:00 and
\* holds its three slots
C15_Witness ==
    /\ last.op = "editPresence" /\ last.status = 302
    /\ Cardinality(presences) < nextPresenceId - 1
    /\ \E p \in presences :
          /\ p.start_time = 555 /\ p.end_time = 600
          /\ Cardinality({s \in slots : s.presence_id = p.id}) = 3

\* C16: whatever requests are served between the awaits of a presence edit, the
\* regeneration of an edit submitted without the confirmation flag erases no
\* reservation: every reservation a regeneration destroys belongs to an edit whose
\* form carried the flag.
C16_NoEraseWithoutFlag ==
    [][(edit.pc = "inserted" /\ TxCommit) =>
          (reservations' # reservations => edit.confirm_impact)]_vars

\* a booking or edit form that fails validation: a name or the phone missing, or a
\* quantity that is missing, not a number or below 1
FormFails(body) ==
    \/ body.first_name = "" \/ body.last_name = "" \/ body.phone = ""
    \/ body.quantity \in {<<>>, <<"x">>, <<"0">>, <<"-", "1">>}

\* the answer of a presence form that failed validation
PresenceFormRefused ==
    /\ last'.status = 200
    /\ last'.view \in {"Tous les champs sont requis", "L'heure de fin doit etre apres"}

\* C17: a booking or a reservation edit whose form misses a name or the phone or has
\* a quantity that is missing, not a number or below 1 is answered 400, a presence
\* create or edit whose form misses a field or does not end after it starts gets the
\* form back with the error, and each leaves presences, slots and reservations
\* exactly as they were; so every stored reservation has quantity >= 1 and every
\* stored presence starts before it ends.
C17_ValidationFrame ==
    /\ [](\A r \in reservations : r.quantity >= 1)
    /\ [](\A p \in presences : p.start_time < p.end_time)
    /\ [][last'.op = "reserve" =>
              \A s \in slots, body \in ReservationBodies :
                  PostReserve(s.id, body) =>
                      /\ FormFails(body) => last'.status = 400
                      /\ last'.status = 400 => UNCHANGED store]_vars
    /\ [][last'.op = "edit" =>
              \A r \in reservations, body \in ReservationBodies :
                  (StartOf(r) > now /\ PostEdit(r.token, body)) =>
                      /\ FormFails(body) => last'.status = 400
                      /\ last'.status = 400 => UNCHANGED store]_vars
    /\ [][last'.op = "createPresence" =>
              \A body \in PresenceBodies :
                  AdminCreatePresence(body) =>
                      /\ ~ PresenceFormIsValid(body) => PresenceFormRefused
                      /\ PresenceFormRefused => UNCHANGED store]_vars
    /\ [][last'.op = "editPresence" =>
              \A p \in presences, body \in PresenceBodies :
                  AdminEditPresence(p.id, body) =>
                      /\ ~ PresenceFormIsValid(body) => PresenceFormRefused
                      /\ PresenceFormRefused => UNCHANGED store]_vars

\* an edit of a stored reservation, its slot still ahead, was answered 400
C17_Witness ==
    /\ last.op = "edit" /\ last.status = 400
    /\ \E r \in reservations : StartOf(r) > now
    /\ presences # {}

====
